---- MODULE Spec2Model ----
(***************************************************************************)
(* Model of the dual-path part search of app/services/web_agent_service.py *)
(* (WebAgentService.find_parts and its helpers) together with the          *)
(* controller of app/controllers/web_agent_controller.py that wraps it.    *)
(*                                                                         *)
(* One behaviour is one request.  find_parts is modelled at the            *)
(* granularity of its await points: every outbound call (Serper POST, page *)
(* GET, Gemini generate_content) is issued by one action and answered by   *)
(* a later one, the answer being chosen by the environment.                *)
(*                                                                         *)
(* JSON values coming from the outside are coded as strings (see the       *)
(* J... definitions); confidence scores are IEEE-754 doubles coded as      *)
(* integers (see FloatAdd).                                                *)
(***************************************************************************)
EXTENDS Integers, Sequences, FiniteSets, TLC

(***************************************************************************)
(* Bounds of the model                                                     *)
(***************************************************************************)
\* largest request.max_results explored (the schema allows 1..50)
MaxResultsBound == 2
\* longest "shopping" array of the shopping reply
MaxShopping == 2
\* longest "organic" array of the organic reply
MaxOrganic == 2
\* longest "shopping" array carried by the organic reply
MaxOrganicShopping == 1

(***************************************************************************)
(* JSON values and Python values                                           *)
(***************************************************************************)
\* the key is missing from the dict
JAbsent == "<absent>"
\* JSON null / Python None
JNull == "null"
\* the number 0 (falsy)
JZero == "0"
\* a positive number held by a "rating" or "reviews" field
JPositive == "4.5"
\* a numeric price returned by the extraction model (the JSON number 499)
JPrice == "499"
\* a string that float() rejects
JBadPrice == "N/A"
\* a non-empty JSON array (float() raises TypeError on it)
JList == "[499]"
\* a Serper price text holding a number, and one holding none
RawPriceText == "Rs 1,250.00"
RawPriceNoNumber == "Call for price"
\* Python None as the value of an Optional field
PyNone == "None"

\* Python truthiness of a value obtained by dict.get(key)
Truthy(v) == v \notin {JAbsent, JNull, JZero, ""}

\* dict.get(key): a missing key reads as None
Get(d, k) == IF d[k] = JAbsent THEN JNull ELSE d[k]

(***************************************************************************)
(* Floating point.  A double d is coded as the integer 1000*d when d is    *)
(* the double nearest to a decimal with one digit, and as that code minus  *)
(* one when d is the double just below it: 899 is 0.8999999999999999 and   *)
(* 799 is 0.7999999999999999.  FloatAdd is IEEE-754 addition on the codes  *)
(* the program can produce.                                                *)
(***************************************************************************)
FloatAdd(x, y) ==
    CASE x = 600 /\ y = 300 -> 899
      [] x = 700 /\ y = 100 -> 799
      [] x = 700 /\ y = 200 -> 899
      [] x = 799 /\ y = 200 -> 1000
      [] OTHER -> x + y

FloatMin(x, y) == IF x <= y THEN x ELSE y


(***************************************************************************)
(* Schemas (app/schemas/web_agent.py)                                      *)
(***************************************************************************)
\* confidence scores and increments of the service, as codes of doubles
BaseConfidence == 500
PriceConfidence == 300
RatingConfidence == 100
ReviewsConfidence == 100
ScrapeConfidence == 200
MaxConfidence == 1000

SERPER_SNIPPET == "serper_snippet"
PAGE_SCRAPE == "page_scrape"
AvailabilityUNKNOWN == "Unknown"

\* the checks pydantic runs when a VendorResult is constructed: product_url
\* is a required str, confidence_score has ge=0.0 and le=1.0.  Assignments
\* to an existing VendorResult are not validated (no validate_assignment).
VendorResultValid(v) ==
    /\ v.product_url # JNull
    /\ v.confidence_score >= 0
    /\ v.confidence_score <= MaxConfidence

(***************************************************************************)
(* Raw Serper listings and _parse_serper_result                            *)
(***************************************************************************)
ListingUrl == "https://vendor.example/p"

\* the raw listings the search surface may return; every listing carries a
\* "source", a "title" and a "snippet"
RawListings ==
    [price   : {JAbsent, RawPriceText, RawPriceNoNumber},
     rating  : {JAbsent, JZero, JPositive},
     reviews : {JAbsent, JZero, JPositive},
     link    : {JAbsent, JNull, ListingUrl}]

\* re.search(r'[\d,]+\.?\d*', price_str.replace(',', '')) followed by float()
PriceMatch(price_str) ==
    IF price_str = RawPriceText THEN "1250.0" ELSE PyNone

\* the currency markers looked for in price_str; "LKR" is the default
DetectCurrency(price_str) == "LKR"

\* ParseConfidence testing rating and reviews for presence, not truthiness
ParseConfidencePresence(price, result) ==
    LET c0 == BaseConfidence
        c1 == IF price # PyNone THEN FloatAdd(c0, PriceConfidence) ELSE c0
        c2 == IF Get(result, "rating") # JAbsent
              THEN FloatAdd(c1, RatingConfidence) ELSE c1
        c3 == IF Get(result, "reviews") # JAbsent
              THEN FloatAdd(c2, ReviewsConfidence) ELSE c2
    IN  c3

\* the confidence computed from the data quality (before the min with 1.0)
ParseConfidence(price, result) ==
    LET c0 == BaseConfidence
        c1 == IF price # PyNone THEN FloatAdd(c0, PriceConfidence) ELSE c0
        c2 == IF Truthy(Get(result, "rating"))
              THEN FloatAdd(c1, RatingConfidence) ELSE c1
        c3 == IF Truthy(Get(result, "reviews"))
              THEN FloatAdd(c2, ReviewsConfidence) ELSE c2
    IN  c3

\* the VendorResult built from a raw listing (the arguments of the
\* constructor; VendorResultValid decides whether construction succeeds)
parse_serper_result(result, source_type) ==
    LET price == IF result.price # JAbsent THEN PriceMatch(result.price)
                 ELSE PyNone
        currency == IF result.price # JAbsent THEN DetectCurrency(result.price)
                    ELSE "LKR"
    IN  [vendor_name      |-> "Raw Vendor",
         product_title    |-> "Raw Title",
         price            |-> price,
         currency         |-> currency,
         availability     |-> AvailabilityUNKNOWN,
         product_url      |-> IF result.link = JAbsent THEN "" ELSE result.link,
         source_type      |-> source_type,
         confidence_score |-> FloatMin(ParseConfidence(price, result),
                                       MaxConfidence),
         description      |-> "Raw snippet"]

(***************************************************************************)
(* _search_serper: what it returns or raises for a reply of the surface    *)
(***************************************************************************)
\* replies of the search surface: a status and, for a JSON object body, the
\* lengths of its "organic" and "shopping" arrays
SearchReplyKinds == {"ok", "non_2xx", "network_error"}

\* max_results of the request quick_search_controller builds
QuickMaxResults == 5

\* QuickRequest with scraping left on
QuickRequestScraping ==
    [max_results |-> QuickMaxResults, include_scraping |-> TRUE,
     part_name |-> "bearing", part_number |-> PyNone,
     manufacturer |-> PyNone, location |-> "Sri Lanka"]

\* PartSearchRequest(part_name, location, max_results=5,
\*                   include_scraping=False)
QuickRequest ==
    [max_results |-> QuickMaxResults, include_scraping |-> FALSE,
     part_name |-> "bearing", part_number |-> PyNone,
     manufacturer |-> PyNone, location |-> "Sri Lanka"]

\* the sizes of the arrays the search surface may return to a quick search:
\* more than the five listings asked for
QuickMaxShopping == 6
QuickMaxOrganic == 2

\* the shopping surface answers with a "shopping" array only
ShoppingReplies ==
    [kind : SearchReplyKinds, organic : {0}, shopping : 0..MaxShopping]

\* the organic surface answers with an "organic" array and, for product
\* queries, a "shopping" array as well
OrganicReplies ==
    [kind : SearchReplyKinds, organic : 0..MaxOrganic,
     shopping : 0..MaxOrganicShopping]

\* The replies and listings a request may meet. A quick search collects up
\* to five listings, so its listings are drawn from those of RawListings
\* that differ in what the slow path tests (a price, a link), and its
\* arrays have their own sizes.
QuickListings ==
    { raw \in RawListings :
        /\ raw.price \in {JAbsent, RawPriceText}
        /\ raw.rating = JAbsent
        /\ raw.reviews = JAbsent
        /\ raw.link \in {JAbsent, ListingUrl} }

ListingsFor(req) == IF req = QuickRequest THEN QuickListings ELSE RawListings

ShoppingRepliesFor(req) ==
    IF req = QuickRequest
    THEN [kind : SearchReplyKinds, organic : {0},
          shopping : 0..QuickMaxShopping]
    ELSE ShoppingReplies

OrganicRepliesFor(req) ==
    IF req = QuickRequest
    THEN [kind : SearchReplyKinds, organic : 0..QuickMaxOrganic,
          shopping : 0..MaxOrganicShopping]
    ELSE OrganicReplies

\* the exception client.post / raise_for_status raises, "none" if none
SearchException(reply) ==
    CASE reply.kind = "non_2xx" -> "HTTPStatusError"
      [] reply.kind = "network_error" -> "ConnectError"
      [] OTHER -> "none"

\* the number of listings _search_serper returns for a 2xx reply
SearchResultCount(search_type, reply) ==
    IF search_type = "shopping"
    THEN reply.shopping
    ELSE reply.organic + reply.shopping

(***************************************************************************)
(* _scrape_and_parse: replies of the page and of the extraction model      *)
(***************************************************************************)
ExtractFields ==
    {"price", "currency", "availability", "vendor_name", "product_title",
     "description"}

Dict(p, c, a, v, t, d) ==
    [price |-> p, currency |-> c, availability |-> a, vendor_name |-> v,
     product_title |-> t, description |-> d]

EmptyDict == Dict(JAbsent, JAbsent, JAbsent, JAbsent, JAbsent, JAbsent)

\* the JSON objects the extraction model may answer with
ExtractedObjects ==
    { EmptyDict,
      Dict(JNull, JNull, JNull, JNull, JNull, JNull),
      Dict(JPrice, "USD", "In Stock", "Scraped Vendor", "Scraped Title",
           "Scraped description"),
      Dict(JNull, JNull, "Out of Stock", JNull, JNull, JNull),
      Dict(JZero, "USD", JNull, JNull, JNull, ""),
      Dict(JBadPrice, "USD", "In Stock", JNull, JNull, JNull),
      Dict(JList, JNull, JNull, JNull, JNull, JNull) }

\* outcomes of the page GET (raise_for_status included)
FetchOutcomes == {"ok", "timeout", "non_2xx"}

\* replies of generate_content: the call fails, or answers with a text that
\* is no JSON, a JSON value that is no object, or a JSON object
ModelReplies ==
    [kind : {"call_error", "not_json", "json_non_object"}, obj : {EmptyDict}]
    \cup [kind : {"object"}, obj : ExtractedObjects]

\* an Optional[dict]: <<>> is None, <<d>> is the dict d
None == << >>
Some(d) == << d >>

\* ParseReply answering an unparseable reply with a default object
ParseReplyDefault(reply) ==
    IF reply.kind = "object" THEN Some(reply.obj)
    ELSE Some(Dict(JNull, JNull, AvailabilityUNKNOWN, JNull, JNull, JNull))

\* ParseReply returning whatever json.loads gave, object or not
ParseReplyAnyJson(reply) ==
    IF reply.kind \in {"object", "json_non_object"}
    THEN Some(reply.obj) ELSE None

\* the value _scrape_and_parse returns once the model has replied: json.loads
\* fails on a non-JSON text (JSONDecodeError), extracted.get fails on a JSON
\* value that is no object (AttributeError); both are caught and give None
ParseReply(reply) ==
    IF reply.kind = "object" THEN Some(reply.obj) ELSE None

\* DictTruthy taking every returned object, the empty one too, as data
DictTruthyAny(scraped) == scraped # None

\* truthiness of the Optional[dict] ("if scraped_data:")
DictTruthy(scraped) ==
    /\ scraped # None
    /\ \E k \in ExtractFields : scraped[1][k] # JAbsent

\* float(scraped_data["price"]): the exception it raises, "none" if none
FloatException(v) ==
    CASE v = JBadPrice -> "ValueError"
      [] v = JList -> "TypeError"
      [] OTHER -> "none"

\* float(v) for a value float() accepts
ToFloat(v) == IF v = JPrice THEN "499.0" ELSE "0.0"


\* the exception the merge of find_parts raises on the extracted dict
MergeException(d) ==
    IF Truthy(Get(d, "price")) THEN FloatException(Get(d, "price")) ELSE "none"

\* MergeConfidence with a larger increment and the cap forgotten
MergeConfidenceNoCap(c) == FloatAdd(c, PriceConfidence + ScrapeConfidence)

\* MergeConfidence giving every scraped listing one fixed score
MergeConfidenceFixed(c) == FloatAdd(BaseConfidence, RatingConfidence)

\* vendor_result.confidence_score after a merge
MergeConfidence(c) == FloatMin(FloatAdd(c, ScrapeConfidence), MaxConfidence)

\* a field is overwritten when the extracted value is truthy
Overwrite(old, d, k) == IF Truthy(Get(d, k)) THEN d[k] ELSE old

\* the merge of the extracted dict d into the VendorResult v
Merge(v, d) ==
    [vendor_name      |-> Overwrite(v.vendor_name, d, "vendor_name"),
     product_title    |-> Overwrite(v.product_title, d, "product_title"),
     price            |-> IF Truthy(Get(d, "price")) THEN ToFloat(d.price)
                          ELSE v.price,
     currency         |-> Overwrite(v.currency, d, "currency"),
     availability     |-> Overwrite(v.availability, d, "availability"),
     product_url      |-> v.product_url,
     source_type      |-> PAGE_SCRAPE,
     confidence_score |-> MergeConfidence(v.confidence_score),
     description      |-> Overwrite(v.description, d, "description")]

\* ShouldScrape without the test of request.include_scraping
ShouldScrapeAlways(v, req) ==
    /\ v.price = PyNone
    /\ v.product_url # ""

\* NoGeminiClient with the test of the client forgotten
NoGeminiClientUnchecked(client) == FALSE

\* the test that opens _scrape_and_parse: without a client it returns None
\* before any page is fetched
NoGeminiClient(client) == ~client

\* the condition under which find_parts calls _scrape_and_parse
ShouldScrape(v, req) ==
    /\ v.price = PyNone
    /\ req.include_scraping
    /\ v.product_url # ""

\* SliceLen of the whole list, without the [:max_results] limit
SliceLenAll(n, max_results) == n

\* len(shopping_results[:max_results])
SliceLen(n, max_results) == IF n <= max_results THEN n ELSE max_results

\* BudgetReached off by one
BudgetReachedLate(rs, max_results) == Len(rs) > max_results

\* the test that ends the organic loop early
BudgetReached(rs, max_results) == Len(rs) >= max_results

(***************************************************************************)
(* results.sort(key=lambda x: x.confidence_score, reverse=True): a stable  *)
(* sort, equal keys keep their order also under reverse=True               *)
(***************************************************************************)
\* InsertSorted placing a listing before those of equal score (an unstable
\* descending sort)
RECURSIVE InsertSortedUnstable(_, _)
InsertSortedUnstable(sorted, x) ==
    IF sorted = << >> THEN << x >>
    ELSE IF Head(sorted).v.confidence_score > x.v.confidence_score
         THEN << Head(sorted) >> \o InsertSortedUnstable(Tail(sorted), x)
         ELSE << x >> \o sorted

RECURSIVE InsertSorted(_, _)
InsertSorted(sorted, x) ==
    IF sorted = << >> THEN << x >>
    ELSE IF Head(sorted).v.confidence_score >= x.v.confidence_score
         THEN << Head(sorted) >> \o InsertSorted(Tail(sorted), x)
         ELSE << x >> \o sorted

RECURSIVE SortFrom(_, _)
SortFrom(sorted, rest) ==
    IF rest = << >> THEN sorted
    ELSE SortFrom(InsertSorted(sorted, Head(rest)), Tail(rest))

SortResults(rs) == SortFrom(<< >>, rs)

\* PartSearchResponse with total_results taken from the two counters
PartSearchResponseCounted(rs, q, fast, slow) ==
    [results         |-> rs,
     search_query    |-> q,
     total_results   |-> fast + slow,
     fast_path_count |-> fast,
     slow_path_count |-> slow]

\* the PartSearchResponse find_parts builds (search_time_ms left out)
PartSearchResponse(rs, q, fast, slow) ==
    [results         |-> rs,
     search_query    |-> q,
     total_results   |-> Len(rs),
     fast_path_count |-> fast,
     slow_path_count |-> slow]

\* except ValueError comes first in the controller: these exceptions are
\* ValueError or subclasses of it
IsValueError(e) == e \in {"ValueError", "ValidationError", "JSONDecodeError"}

\* StatusOf with the generic handler catching every exception
StatusOfGeneric(returned, e) == IF returned THEN 200 ELSE 500

\* StatusOf answering nothing when find_parts raised
StatusOfSilent(returned, e) == IF returned THEN 200 ELSE 0

StatusOf(returned, e) ==
    IF returned THEN 200 ELSE IF IsValueError(e) THEN 503 ELSE 500


\* search_serper swallowing a transport fault and returning no listing
search_serper_swallow(search_type, reply) ==
    [exc |-> "none",
     n   |-> IF SearchException(reply) = "none"
             THEN SearchResultCount(search_type, reply) ELSE 0]

\* _search_serper once the surface has replied: the exception that leaves
\* it ("none" if it returns) and the number of listings it returns
search_serper(search_type, reply) ==
    [exc |-> SearchException(reply),
     n   |-> IF SearchException(reply) = "none"
             THEN SearchResultCount(search_type, reply) ELSE 0]

(***************************************************************************)
(* State                                                                   *)
(***************************************************************************)
VARIABLES
    SERPER_API_KEY,    \* settings.SERPER_API_KEY is set
    gemini_client,     \* self.gemini_client is not None
    request,           \* the PartSearchRequest
    pc,                \* where find_parts stands
    results,           \* the list of collected listings
    fast_path_count,
    slow_path_count,
    shopping_results,  \* length of the list the shopping search returned
    organic_results,   \* length of the list the organic search returned
    idx,               \* index of the running for loop
    raw_result,        \* the raw listing of the running iteration, or None
    vendor_result,     \* the listing of the running iteration, or None
    calls,             \* the outbound calls issued so far, in order, each
                       \* with what the outside answered
    exc,               \* the exception that left find_parts, "none" if none
    raised_at,         \* the value of pc when it was raised
    response,          \* the PartSearchResponse returned, or None
    http_status,       \* what the controller gave the caller, 0 before
    invocations,       \* concurrent find_parts calls on the one service
                       \* instance: each call's request and position
    frames,            \* each concurrent call's results list and counters
    users,             \* the rows of the users table
    uuids,             \* how many User ids uuid4 has generated
    sessions           \* the user requests in progress, one per session

vars ==
    << SERPER_API_KEY, gemini_client, request, pc, results, fast_path_count,
       slow_path_count, shopping_results, organic_results, idx, raw_result,
       vendor_result, calls, exc, raised_at, response, http_status,
       invocations, frames, users, uuids, sessions >>

\* A collected listing: the VendorResult v, and four history fields: its
\* discovery index seq, the search it came from, what the enrichment
\* attempt on it met ("none" when none was made), and scraped_data, the
\* value _scrape_and_parse returned for it (None when it was not called).
Listing(v, seq, origin, attempt) ==
    [v |-> v, seq |-> seq, origin |-> origin, attempt |-> attempt,
     scraped |-> None]

Requests ==
    [max_results : 1..MaxResultsBound, include_scraping : BOOLEAN,
     part_name : {"bearing"}, part_number : {"6205"},
     manufacturer : {PyNone}, location : {"Sri Lanka"}]

\* the requests whose text fields vary: part_number and manufacturer are
\* Optional[str] with no minimum length, location is a str with none
QueryRequests ==
    [max_results : {1}, include_scraping : BOOLEAN,
     part_name : {"bearing"}, part_number : {PyNone, "", "6205"},
     manufacturer : {PyNone, "", "SKF"}, location : {"Sri Lanka", ""}]

\* " ".join(parts)
RECURSIVE Join(_)
Join(parts) ==
    IF Len(parts) = 1 THEN parts[1]
    ELSE parts[1] \o " " \o Join(Tail(parts))

\* "if request.part_number:" on an Optional[str]
StrTruthy(s) == s \notin {PyNone, ""}

\* query_parts with the manufacturer ahead of the part number
query_parts_swapped(req) ==
    << "buy", req.part_name >>
    \o (IF StrTruthy(req.manufacturer) THEN << req.manufacturer >> ELSE << >>)
    \o (IF StrTruthy(req.part_number) THEN << req.part_number >> ELSE << >>)
    \o << req.location >>

query_parts(req) ==
    << "buy", req.part_name >>
    \o (IF StrTruthy(req.part_number) THEN << req.part_number >> ELSE << >>)
    \o (IF StrTruthy(req.manufacturer) THEN << req.manufacturer >> ELSE << >>)
    \o << req.location >>

search_query(req) == Join(query_parts(req))

Call(kind, num) ==
    [kind |-> kind, num |-> num, outcome |-> "pending", q |-> PyNone]

\* a call of _search_serper: the payload's "q" and "num"
SearchCall(kind, q, num) == [Call(kind, num) EXCEPT !.q = q]

\* Answered leaving the call in flight while find_parts goes on
AnsweredLater(cs, outcome) == cs

Answered(cs, outcome) == [cs EXCEPT ![Len(cs)].outcome = outcome]

\* what the search surface answered, as recorded in calls
ReplyOutcome(reply) == IF reply.kind = "ok" THEN "ok" ELSE "fault"

\* no request on the users table
UsersIdle ==
    /\ users = {}
    /\ uuids = 0
    /\ sessions = << >>

Init ==
    /\ SERPER_API_KEY \in BOOLEAN
    /\ gemini_client \in BOOLEAN
    /\ request \in Requests
    /\ pc = "start"
    /\ results = << >>
    /\ fast_path_count = 0
    /\ slow_path_count = 0
    /\ shopping_results = 0
    /\ organic_results = 0
    /\ idx = 0
    /\ raw_result = None
    /\ vendor_result = None
    /\ calls = << >>
    /\ exc = "none"
    /\ raised_at = "none"
    /\ response = None
    /\ http_status = 0
    /\ invocations = << >>
    /\ frames = << >>
    /\ UsersIdle

\* the users table and the requests on it
user_vars == << users, uuids, sessions >>

\* what a single find_parts call never writes: the settings, its request,
\* the state of the concurrent calls and the users table
config_vars ==
    << SERPER_API_KEY, gemini_client, request, invocations, frames,
       user_vars >>


\* the state of the single find_parts call
run_vars ==
    << pc, results, fast_path_count, slow_path_count, shopping_results,
       organic_results, idx, raw_result, vendor_result, calls, exc,
       raised_at, response, http_status >>

\* an exception e leaves find_parts (the except clause logs and re-raises)
Raise(e) ==
    /\ pc' = "raised"
    /\ exc' = e
    /\ raised_at' = pc

NoRaise == UNCHANGED << exc, raised_at >>

(***************************************************************************)
(* find_parts, step 1: the shopping search                                 *)
(***************************************************************************)
\* _search_serper raises ValueError without a key, else it posts the query
shopping_search ==
    /\ pc = "start"
    /\ IF ~SERPER_API_KEY
       THEN /\ Raise("ValueError")
            /\ UNCHANGED calls
       ELSE /\ pc' = "await_shopping"
            /\ calls' = Append(calls,
                          SearchCall("shopping", search_query(request),
                                     request.max_results))
            /\ NoRaise
    /\ UNCHANGED << config_vars, results, fast_path_count, slow_path_count,
                    shopping_results, organic_results, idx, raw_result,
                    vendor_result, response, http_status >>

shopping_reply ==
    /\ pc = "await_shopping"
    /\ \E reply \in ShoppingRepliesFor(request) :
         LET r == search_serper("shopping", reply) IN
         IF r.exc # "none"
         THEN /\ Raise(r.exc)
              /\ calls' = Answered(calls, ReplyOutcome(reply))
              /\ UNCHANGED << shopping_results, idx >>
         ELSE /\ pc' = "shopping_loop"
              /\ calls' = Answered(calls, ReplyOutcome(reply))
              /\ shopping_results' = r.n
              /\ idx' = 0
              /\ NoRaise
    /\ UNCHANGED << config_vars, results, fast_path_count, slow_path_count,
                    organic_results, raw_result, vendor_result, response,
                    http_status >>

\* one iteration of the loop over shopping_results[:max_results]
shopping_append ==
    /\ pc = "shopping_loop"
    /\ idx < SliceLen(shopping_results, request.max_results)
    /\ \E raw \in ListingsFor(request) :
         LET v == parse_serper_result(raw, SERPER_SNIPPET) IN
         IF ~VendorResultValid(v)
         THEN /\ Raise("ValidationError")
              /\ UNCHANGED << results, fast_path_count, idx >>
         ELSE /\ results' = Append(results,
                              Listing(v, Len(results) + 1, "shopping", "none"))
              /\ fast_path_count' = fast_path_count + 1
              /\ idx' = idx + 1
              /\ pc' = "shopping_loop"
              /\ NoRaise
    /\ UNCHANGED << config_vars, slow_path_count, shopping_results,
                    organic_results, raw_result, vendor_result, calls,
                    response, http_status >>

(***************************************************************************)
(* find_parts, step 2: the organic search, when the budget is not filled   *)
(***************************************************************************)
\* UnderFilled true also when the budget is exactly filled
UnderFilledOrFull(rs, max_results) == Len(rs) <= max_results

\* if len(results) < request.max_results
UnderFilled(rs, max_results) == Len(rs) < max_results

organic_search ==
    /\ pc = "shopping_loop"
    /\ idx >= SliceLen(shopping_results, request.max_results)
    /\ IF UnderFilled(results, request.max_results)
       THEN /\ pc' = "await_organic"
            /\ calls' = Append(calls,
                          SearchCall("search", search_query(request),
                                     request.max_results - Len(results)))
       ELSE /\ pc' = "sort"
            /\ UNCHANGED calls
    /\ UNCHANGED << config_vars, results, fast_path_count, slow_path_count,
                    shopping_results, organic_results, idx, raw_result,
                    vendor_result, exc, raised_at, response, http_status >>

organic_reply ==
    /\ pc = "await_organic"
    /\ \E reply \in OrganicRepliesFor(request) :
         LET r == search_serper("search", reply) IN
         IF r.exc # "none"
         THEN /\ Raise(r.exc)
              /\ calls' = Answered(calls, ReplyOutcome(reply))
              /\ UNCHANGED << organic_results, idx >>
         ELSE /\ pc' = "organic_loop"
              /\ calls' = Answered(calls, ReplyOutcome(reply))
              /\ organic_results' = r.n
              /\ idx' = 0
              /\ NoRaise
    /\ UNCHANGED << config_vars, results, fast_path_count, slow_path_count,
                    shopping_results, raw_result, vendor_result, response,
                    http_status >>

\* the loop over organic_results ends: exhausted, or the budget is reached
organic_exit ==
    /\ pc = "organic_loop"
    /\ idx >= organic_results \/ BudgetReached(results, request.max_results)
    /\ pc' = "sort"
    /\ UNCHANGED << config_vars, results, fast_path_count, slow_path_count,
                    shopping_results, organic_results, idx, raw_result,
                    vendor_result, calls, exc, raised_at, response,
                    http_status >>

\* the next organic listing is parsed
organic_parse ==
    /\ pc = "organic_loop"
    /\ idx < organic_results
    /\ ~BudgetReached(results, request.max_results)
    /\ \E raw \in ListingsFor(request) :
         LET v == parse_serper_result(raw, SERPER_SNIPPET) IN
         /\ raw_result' = Some(raw)
         /\ IF ~VendorResultValid(v)
            THEN /\ Raise("ValidationError")
                 /\ UNCHANGED vendor_result
            ELSE /\ vendor_result' =
                      Some(Listing(v, Len(results) + 1, "organic", "none"))
                 /\ pc' = "parsed"
                 /\ NoRaise
    /\ idx' = idx + 1
    /\ UNCHANGED << config_vars, results, fast_path_count, slow_path_count,
                    shopping_results, organic_results, calls, response,
                    http_status >>


(***************************************************************************)
(* find_parts, step 3: the slow path for an organic listing                *)
(***************************************************************************)
\* _scrape_and_parse has returned scraped: the merge, when scraped is
\* truthy, and results.append(vendor_result); attempt is recorded with it
Collect(scraped, attempt) ==
    LET cur == vendor_result[1] IN
    IF DictTruthy(scraped) /\ MergeException(scraped[1]) # "none"
    THEN /\ Raise(MergeException(scraped[1]))
         /\ UNCHANGED << results, slow_path_count, raw_result, vendor_result >>
    ELSE /\ IF DictTruthy(scraped)
            THEN /\ results' = Append(results,
                                 [cur EXCEPT !.v = Merge(cur.v, scraped[1]),
                                             !.attempt = attempt,
                                             !.scraped = scraped])
                 /\ slow_path_count' = slow_path_count + 1
            ELSE /\ results' = Append(results,
                                 [cur EXCEPT !.attempt = attempt,
                                             !.scraped = scraped])
                 /\ UNCHANGED slow_path_count
         /\ raw_result' = None
         /\ vendor_result' = None
         /\ pc' = "organic_loop"
         /\ NoRaise

\* the test of step 3; _scrape_and_parse returns None at once without a
\* Gemini client, else it fetches the page
organic_decide ==
    /\ pc = "parsed"
    /\ IF ShouldScrape(vendor_result[1].v, request)
       THEN IF NoGeminiClient(gemini_client)
            THEN /\ Collect(None, "no_client")
                 /\ UNCHANGED calls
            ELSE /\ pc' = "await_fetch"
                 /\ calls' = Append(calls, Call("get", 0))
                 /\ UNCHANGED << results, slow_path_count, raw_result,
                                 vendor_result, exc, raised_at >>
       ELSE /\ Collect(None, "none")
            /\ UNCHANGED calls
    /\ UNCHANGED << config_vars, fast_path_count, shopping_results,
                    organic_results, idx, response, http_status >>

\* the page GET ends: httpx.HTTPError is caught and gives None, else the
\* sanitised page is sent to the extraction model
fetch_reply ==
    /\ pc = "await_fetch"
    /\ \E outcome \in FetchOutcomes :
         IF outcome # "ok"
         THEN /\ calls' = Answered(calls, "fault")
              /\ Collect(None, "fetch_fault")
         ELSE /\ calls' = Append(Answered(calls, "ok"),
                                 Call("generate_content", 0))
              /\ pc' = "await_model"
              /\ UNCHANGED << results, slow_path_count, raw_result,
                              vendor_result, exc, raised_at >>
    /\ UNCHANGED << config_vars, fast_path_count, shopping_results,
                    organic_results, idx, response, http_status >>

\* generate_content ends: any exception is caught and gives None, else the
\* reply is parsed
model_reply ==
    /\ pc = "await_model"
    /\ \E reply \in ModelReplies :
         /\ calls' = Answered(calls, reply.kind)
         /\ Collect(IF reply.kind = "call_error" THEN None
                    ELSE ParseReply(reply), reply.kind)
    /\ UNCHANGED << config_vars, fast_path_count, shopping_results,
                    organic_results, idx, response, http_status >>

(***************************************************************************)
(* find_parts: the sort and the response                                   *)
(***************************************************************************)
sort_and_return ==
    /\ pc = "sort"
    /\ results' = SortResults(results)
    /\ response' = Some(PartSearchResponse(SortResults(results),
                                           search_query(request),
                                           fast_path_count, slow_path_count))
    /\ pc' = "returned"
    /\ UNCHANGED << config_vars, fast_path_count, slow_path_count,
                    shopping_results, organic_results, idx, raw_result,
                    vendor_result, calls, exc, raised_at, http_status >>

(***************************************************************************)
(* search_parts_controller: the response, or 503 for a ValueError and 500  *)
(* for any other exception                                                 *)
(***************************************************************************)
search_parts_controller ==
    /\ pc \in {"returned", "raised"}
    /\ http_status = 0
    /\ http_status' = StatusOf(pc = "returned", exc)
    /\ UNCHANGED << config_vars, pc, results, fast_path_count,
                    slow_path_count, shopping_results, organic_results, idx,
                    raw_result, vendor_result, calls, exc, raised_at,
                    response >>

Next ==
    \/ shopping_search
    \/ shopping_reply
    \/ shopping_append
    \/ organic_search
    \/ organic_reply
    \/ organic_exit
    \/ organic_parse
    \/ organic_decide
    \/ fetch_reply
    \/ model_reply
    \/ sort_and_return
    \/ search_parts_controller

Spec == Init /\ [][Next]_vars

(***************************************************************************)
(* quick_search_controller: search_parts_controller on the quick request.  *)
(* With include_scraping false no step awaits a page or the model, so the  *)
(* two reply steps of the slow path are not among its steps.               *)
(***************************************************************************)
InitQuick ==
    /\ SERPER_API_KEY \in BOOLEAN
    /\ gemini_client \in BOOLEAN
    /\ request = QuickRequest
    /\ pc = "start"
    /\ results = << >>
    /\ fast_path_count = 0
    /\ slow_path_count = 0
    /\ shopping_results = 0
    /\ organic_results = 0
    /\ idx = 0
    /\ raw_result = None
    /\ vendor_result = None
    /\ calls = << >>
    /\ exc = "none"
    /\ raised_at = "none"
    /\ response = None
    /\ http_status = 0
    /\ invocations = << >>
    /\ frames = << >>
    /\ UsersIdle

\* search_parts_controller on requests whose text fields vary
InitQuery ==
    /\ SERPER_API_KEY \in BOOLEAN
    /\ gemini_client \in BOOLEAN
    /\ request \in QueryRequests
    /\ pc = "start"
    /\ results = << >>
    /\ fast_path_count = 0
    /\ slow_path_count = 0
    /\ shopping_results = 0
    /\ organic_results = 0
    /\ idx = 0
    /\ raw_result = None
    /\ vendor_result = None
    /\ calls = << >>
    /\ exc = "none"
    /\ raised_at = "none"
    /\ response = None
    /\ http_status = 0
    /\ invocations = << >>
    /\ frames = << >>
    /\ UsersIdle

SpecQuery == InitQuery /\ [][Next]_vars

NextQuick ==
    \/ shopping_search
    \/ shopping_reply
    \/ shopping_append
    \/ organic_search
    \/ organic_reply
    \/ organic_exit
    \/ organic_parse
    \/ organic_decide
    \/ sort_and_return
    \/ search_parts_controller

SpecQuick == InitQuick /\ [][NextQuick]_vars

(***************************************************************************)
(* Concurrent find_parts calls on the singleton web_agent_service. Each    *)
(* call is a coroutine; the calls interleave where they await. The locals  *)
(* results, fast_path_count and slow_path_count of a call live in its      *)
(* frame.                                                                  *)
(***************************************************************************)
Procs == {"a", "b"}

\* Frame with the locals kept as attributes of the shared instance
FrameOfInstance(p) == "a"

\* the frame that holds the locals find_parts creates when it is entered
Frame(p) == p

ConcRequests ==
    { r \in Requests : r.max_results \in {1, 2} /\ r.include_scraping }

ConcListings ==
    { raw \in RawListings :
        /\ raw.price \in {JAbsent, RawPriceText}
        /\ raw.rating = JAbsent
        /\ raw.reviews = JAbsent
        /\ raw.link = ListingUrl }

ConcShoppingReplies ==
    { r \in ShoppingReplies :
        r.kind \in {"ok", "network_error"} /\ r.shopping <= 1 }

ConcOrganicReplies ==
    { r \in OrganicReplies :
        r.kind \in {"ok", "network_error"} /\ r.shopping = 0 }

ConcModelReplies ==
    { r \in ModelReplies :
        r.kind = "not_json" \/ (r.kind = "object" /\ r.obj.price = JPrice) }

Invocation(req) ==
    [request |-> req, pc |-> "start", n |-> 0, idx |-> 0,
     vendor_result |-> None, own |-> << >>, response |-> None,
     exc |-> "none"]

NewFrame == [results |-> << >>, fast_path_count |-> 0, slow_path_count |-> 0]

\* a listing with the invocation whose call returned it
Owned(l, p) ==
    [v |-> l.v, seq |-> l.seq, origin |-> l.origin, attempt |-> l.attempt,
     scraped |-> l.scraped, owner |-> p]

\* the single call at rest
RunIdle ==
    /\ pc = "start"
    /\ results = << >>
    /\ fast_path_count = 0
    /\ slow_path_count = 0
    /\ shopping_results = 0
    /\ organic_results = 0
    /\ idx = 0
    /\ raw_result = None
    /\ vendor_result = None
    /\ calls = << >>
    /\ exc = "none"
    /\ raised_at = "none"
    /\ response = None
    /\ http_status = 0

InitConcurrent ==
    /\ SERPER_API_KEY = TRUE
    /\ gemini_client \in BOOLEAN
    /\ request = QuickRequest
    /\ RunIdle
    /\ invocations \in [Procs -> { Invocation(r) : r \in ConcRequests }]
    /\ frames = [p \in Procs |-> NewFrame]
    /\ UsersIdle

ConcUnchanged ==
    UNCHANGED << SERPER_API_KEY, gemini_client, request, run_vars,
                 user_vars >>

\* find_parts is entered: the locals are created, the query is built and
\* the shopping search is awaited
c_shopping_search(p) ==
    /\ invocations[p].pc = "start"
    /\ frames' = [frames EXCEPT ![Frame(p)] = NewFrame]
    /\ invocations' =
         [invocations EXCEPT
            ![p].pc = IF ~SERPER_API_KEY THEN "raised" ELSE "await_shopping",
            ![p].exc = IF ~SERPER_API_KEY THEN "ValueError" ELSE "none"]
    /\ ConcUnchanged

c_shopping_reply(p) ==
    /\ invocations[p].pc = "await_shopping"
    /\ \E reply \in ConcShoppingReplies :
         LET r == search_serper("shopping", reply) IN
         invocations' =
           IF r.exc # "none"
           THEN [invocations EXCEPT ![p].pc = "raised", ![p].exc = r.exc]
           ELSE [invocations EXCEPT ![p].pc = "shopping_loop",
                                    ![p].n = r.n, ![p].idx = 0]
    /\ UNCHANGED frames
    /\ ConcUnchanged

c_shopping_append(p) ==
    LET inv == invocations[p]
        fr  == frames[Frame(p)]
    IN  /\ inv.pc = "shopping_loop"
        /\ inv.idx < SliceLen(inv.n, inv.request.max_results)
        /\ \E raw \in ConcListings :
             LET v == parse_serper_result(raw, SERPER_SNIPPET)
                 l == Owned(Listing(v, Len(fr.results) + 1, "shopping",
                                    "none"), p)
             IN  IF ~VendorResultValid(v)
                 THEN /\ invocations' =
                           [invocations EXCEPT ![p].pc = "raised",
                                               ![p].exc = "ValidationError"]
                      /\ UNCHANGED frames
                 ELSE /\ frames' =
                           [frames EXCEPT
                              ![Frame(p)].results = Append(fr.results, l),
                              ![Frame(p)].fast_path_count =
                                  fr.fast_path_count + 1]
                      /\ invocations' =
                           [invocations EXCEPT ![p].idx = inv.idx + 1,
                                               ![p].own = Append(inv.own, l)]
        /\ ConcUnchanged
c_organic_search(p) ==
    LET inv == invocations[p]
        fr  == frames[Frame(p)]
    IN  /\ inv.pc = "shopping_loop"
        /\ inv.idx >= SliceLen(inv.n, inv.request.max_results)
        /\ invocations' =
             [invocations EXCEPT
                ![p].pc = IF UnderFilled(fr.results, inv.request.max_results)
                          THEN "await_organic" ELSE "sort"]
        /\ UNCHANGED frames
        /\ ConcUnchanged

c_organic_reply(p) ==
    /\ invocations[p].pc = "await_organic"
    /\ \E reply \in ConcOrganicReplies :
         LET r == search_serper("search", reply) IN
         invocations' =
           IF r.exc # "none"
           THEN [invocations EXCEPT ![p].pc = "raised", ![p].exc = r.exc]
           ELSE [invocations EXCEPT ![p].pc = "organic_loop",
                                    ![p].n = r.n, ![p].idx = 0]
    /\ UNCHANGED frames
    /\ ConcUnchanged

\* one iteration of the organic loop up to its await, or the loop's end
c_organic_step(p) ==
    LET inv == invocations[p]
        fr  == frames[Frame(p)]
    IN  /\ inv.pc = "organic_loop"
        /\ IF \/ inv.idx >= inv.n
              \/ BudgetReached(fr.results, inv.request.max_results)
           THEN /\ invocations' = [invocations EXCEPT ![p].pc = "sort"]
                /\ UNCHANGED frames
           ELSE \E raw \in ConcListings :
                  LET v == parse_serper_result(raw, SERPER_SNIPPET)
                      called == ShouldScrape(v, inv.request)
                      l == Owned(Listing(v, Len(fr.results) + 1, "organic",
                                         IF called THEN "no_client"
                                         ELSE "none"), p)
                  IN  IF ~VendorResultValid(v)
                      THEN /\ invocations' =
                                [invocations EXCEPT
                                   ![p].pc = "raised",
                                   ![p].exc = "ValidationError"]
                           /\ UNCHANGED frames
                      ELSE IF called /\ ~NoGeminiClient(gemini_client)
                      THEN /\ invocations' =
                                [invocations EXCEPT
                                   ![p].pc = "await_scrape",
                                   ![p].idx = inv.idx + 1,
                                   ![p].vendor_result = Some(l)]
                           /\ UNCHANGED frames
                      ELSE /\ frames' =
                                [frames EXCEPT
                                   ![Frame(p)].results = Append(fr.results, l)]
                           /\ invocations' =
                                [invocations EXCEPT
                                   ![p].idx = inv.idx + 1,
                                   ![p].own = Append(inv.own, l)]
        /\ ConcUnchanged

\* await self._scrape_and_parse(...) returns: the merge and the append
c_scrape_return(p) ==
    LET inv == invocations[p]
        fr  == frames[Frame(p)]
        cur == inv.vendor_result[1]
    IN  /\ inv.pc = "await_scrape"
        /\ \E reply \in ConcModelReplies :
             LET scraped == ParseReply(reply)
                 l == IF DictTruthy(scraped)
                      THEN [cur EXCEPT !.v = Merge(cur.v, scraped[1]),
                                       !.attempt = reply.kind,
                                       !.scraped = scraped]
                      ELSE [cur EXCEPT !.attempt = reply.kind,
                                       !.scraped = scraped]
             IN  IF DictTruthy(scraped) /\ MergeException(scraped[1]) # "none"
                 THEN /\ invocations' =
                           [invocations EXCEPT
                              ![p].pc = "raised",
                              ![p].exc = MergeException(scraped[1])]
                      /\ UNCHANGED frames
                 ELSE /\ frames' =
                           [frames EXCEPT
                              ![Frame(p)].results = Append(fr.results, l),
                              ![Frame(p)].slow_path_count =
                                  IF DictTruthy(scraped)
                                  THEN fr.slow_path_count + 1
                                  ELSE fr.slow_path_count]
                      /\ invocations' =
                           [invocations EXCEPT
                              ![p].pc = "organic_loop",
                              ![p].vendor_result = None,
                              ![p].own = Append(inv.own, l)]
        /\ ConcUnchanged

c_sort_and_return(p) ==
    LET inv == invocations[p]
        fr  == frames[Frame(p)]
    IN  /\ inv.pc = "sort"
        /\ frames' = [frames EXCEPT
                        ![Frame(p)].results = SortResults(fr.results)]
        /\ invocations' =
             [invocations EXCEPT
                ![p].pc = "returned",
                ![p].response =
                    Some(PartSearchResponse(SortResults(fr.results),
                                            search_query(inv.request),
                                            fr.fast_path_count,
                                            fr.slow_path_count))]
        /\ ConcUnchanged

NextConcurrent ==
    \/ \E p \in Procs : c_shopping_search(p)
    \/ \E p \in Procs : c_shopping_reply(p)
    \/ \E p \in Procs : c_shopping_append(p)
    \/ \E p \in Procs : c_organic_search(p)
    \/ \E p \in Procs : c_organic_reply(p)
    \/ \E p \in Procs : c_organic_step(p)
    \/ \E p \in Procs : c_scrape_return(p)
    \/ \E p \in Procs : c_sort_and_return(p)

SpecConcurrent == InitConcurrent /\ [][NextConcurrent]_vars

(***************************************************************************)
(* The users table and the user service. The endpoints are plain def       *)
(* functions, so requests run in threads, each with its own Session; the   *)
(* SELECT of an operation and its commit are separate steps.               *)
(***************************************************************************)
MaxUserIds == 2

Emails == {"ann@example.com", "bob@example.com"}
Passwords == {"pw-one", "pw-two"}
Sessions == {"s1", "s2"}

\* a field of UserUpdate that was not set (model_dump(exclude_unset=True));
\* a set field is << value >>
Unset == << >>

UserUpdates ==
    [email     : {Unset} \cup { << e >> : e \in Emails },
     is_active : {Unset, << TRUE >>, << FALSE >>}]

\* pwd_context.hash and pwd_context.verify
hash_password(password) == << "bcrypt", password >>
verify_password(plain_password, hashed_password) ==
    hashed_password = hash_password(plain_password)

\* User(email=..., username=..., hashed_password=...): is_active defaults to
\* True, id to a fresh uuid4
User(id, email, hashed_password) ==
    [id |-> id, email |-> email, hashed_password |-> hashed_password,
     is_active |-> TRUE]

\* select(User).where(User.id == user_id) ... .first()
get_user(rows, user_id) == { u \in rows : u.id = user_id }

\* select(User).where(User.email == email) ... .first()
get_user_by_email(rows, email) == { u \in rows : u.email = email }

\* UniqueViolation of a table whose email column is not unique
UniqueViolationOff(rows, id, email) == FALSE

\* the unique index on users.email rejects the row id taking this email
UniqueViolation(rows, id, email) ==
    \E u \in rows : u.email = email /\ u.id # id

\* authenticate_user without the test of is_active
authenticate_user_any(rows, email, password) ==
    { u \in get_user_by_email(rows, email) :
        verify_password(password, u.hashed_password) }

\* authenticate_user: the users it returns, {} for None
authenticate_user(rows, email, password) ==
    { u \in get_user_by_email(rows, email) :
        u.is_active /\ verify_password(password, u.hashed_password) }

NoUpdate == [email |-> Unset, is_active |-> Unset]

IdleSession ==
    [pc |-> "idle", op |-> "none", email |-> PyNone, password |-> PyNone,
     user_id |-> 0, user_update |-> NoUpdate, hard_delete |-> FALSE,
     user |-> None, returned |-> "none"]

\* what is kept of an operation that has ended with r: its name, the email
\* or the user id it was about, whether it was a hard delete, and r
Ended(session, r) ==
    [IdleSession EXCEPT !.op = session.op, !.email = session.email,
                        !.user_id = session.user_id,
                        !.hard_delete = session.hard_delete, !.returned = r]

\* the operation of session s ends with r; the session is free again
Return(s, r) == sessions' = [sessions EXCEPT ![s] = Ended(sessions[s], r)]

\* a session starts an operation
Begin(s, op) == [IdleSession EXCEPT !.op = op]

UsersUnchanged ==
    UNCHANGED << SERPER_API_KEY, gemini_client, request, run_vars,
                 invocations, frames >>

InitUsers ==
    /\ SERPER_API_KEY = TRUE
    /\ gemini_client = TRUE
    /\ request = QuickRequest
    /\ RunIdle
    /\ invocations = << >>
    /\ frames = << >>
    /\ users = {}
    /\ uuids = 0
    /\ sessions = [s \in Sessions |-> IdleSession]

\* create_user up to session.add: the email check, the hash, the User
create_user_check(s) ==
    /\ sessions[s].pc = "idle"
    /\ \E email \in Emails :
         IF get_user_by_email(users, email) # {}
         THEN /\ sessions' =
                   [sessions EXCEPT
                      ![s] = Ended([Begin(s, "create_user") EXCEPT
                                      !.email = email], "ValueError")]
              /\ UNCHANGED uuids
         ELSE /\ uuids < MaxUserIds
              /\ sessions' =
                   [sessions EXCEPT
                      ![s] = [Begin(s, "create_user") EXCEPT
                                !.pc = "create_commit",
                                !.email = email,
                                !.user = Some(User(uuids + 1, email,
                                                   hash_password("pw-one")))]]
              /\ uuids' = uuids + 1
    /\ UNCHANGED users
    /\ UsersUnchanged

\* session.commit() of create_user: the INSERT
create_user_commit(s) ==
    LET user == sessions[s].user[1] IN
    /\ sessions[s].pc = "create_commit"
    /\ IF UniqueViolation(users, user.id, user.email)
       THEN /\ Return(s, "IntegrityError")
            /\ UNCHANGED users
       ELSE /\ users' = users \cup {user}
            /\ Return(s, "User")
    /\ UNCHANGED uuids
    /\ UsersUnchanged
\* update_user: get_user, and the setattr of the fields that were set
update_user_get(s) ==
    /\ sessions[s].pc = "idle"
    /\ \E user_id \in 1..MaxUserIds, user_update \in UserUpdates :
         LET found == get_user(users, user_id)
             begun == [Begin(s, "update_user") EXCEPT
                         !.user_id = user_id, !.user_update = user_update]
         IN  sessions' =
               [sessions EXCEPT
                  ![s] = IF found = {}
                         THEN Ended(begun, "None")
                         ELSE [begun EXCEPT
                                 !.pc = "update_commit",
                                 !.user = Some(CHOOSE u \in found : TRUE)]]
    /\ UNCHANGED << users, uuids >>
    /\ UsersUnchanged

\* the columns the commit of update_user writes: those whose new value
\* differs from the loaded one
Changed(user, user_update, field) ==
    user_update[field] # Unset /\ user_update[field][1] # user[field]

\* session.commit() and session.refresh(user) of update_user
update_user_commit(s) ==
    LET user == sessions[s].user[1]
        upd  == sessions[s].user_update
        row  == get_user(users, user.id)
    IN  /\ sessions[s].pc = "update_commit"
        /\ IF row = {}
           THEN /\ Return(s, IF Changed(user, upd, "email")
                                \/ Changed(user, upd, "is_active")
                             THEN "StaleDataError"
                             ELSE "InvalidRequestError")
                /\ UNCHANGED users
           ELSE IF /\ Changed(user, upd, "email")
                   /\ UniqueViolation(users, user.id, upd.email[1])
           THEN /\ Return(s, "IntegrityError")
                /\ UNCHANGED users
           ELSE LET cur == CHOOSE u \in row : TRUE IN
                /\ users' =
                     (users \ row) \cup
                     {[cur EXCEPT
                         !.email = IF Changed(user, upd, "email")
                                   THEN upd.email[1] ELSE cur.email,
                         !.is_active = IF Changed(user, upd, "is_active")
                                       THEN upd.is_active[1]
                                       ELSE cur.is_active]}
                /\ Return(s, "User")
        /\ UNCHANGED uuids
        /\ UsersUnchanged

\* delete_user: get_user
delete_user_get(s) ==
    /\ sessions[s].pc = "idle"
    /\ \E user_id \in 1..MaxUserIds, hard_delete \in BOOLEAN :
         LET found == get_user(users, user_id)
             begun == [Begin(s, "delete_user") EXCEPT
                         !.user_id = user_id, !.hard_delete = hard_delete]
         IN  sessions' =
               [sessions EXCEPT
                  ![s] = IF found = {}
                         THEN Ended(begun, "False")
                         ELSE [begun EXCEPT
                                 !.pc = "delete_commit",
                                 !.user = Some(CHOOSE u \in found : TRUE)]]
    /\ UNCHANGED << users, uuids >>
    /\ UsersUnchanged

\* session.delete(user), or user.is_active = False, and session.commit()
delete_user_commit(s) ==
    LET user == sessions[s].user[1]
        row  == get_user(users, user.id)
    IN  /\ sessions[s].pc = "delete_commit"
        /\ IF sessions[s].hard_delete
           THEN /\ users' = users \ row
                /\ Return(s, "True")
           ELSE IF ~user.is_active
           THEN /\ UNCHANGED users
                /\ Return(s, "True")
           ELSE IF row = {}
           THEN /\ UNCHANGED users
                /\ Return(s, "StaleDataError")
           ELSE /\ users' = { IF u \in row THEN [u EXCEPT !.is_active = FALSE]
                              ELSE u : u \in users }
                /\ Return(s, "True")
        /\ UNCHANGED uuids
        /\ UsersUnchanged

\* a login attempt: authenticate_user with an email and a password
authenticate(s) ==
    /\ sessions[s].pc = "idle"
    /\ \E email \in Emails, password \in Passwords :
         sessions' =
           [sessions EXCEPT
              ![s] = [Begin(s, "authenticate_user") EXCEPT
                        !.email = email,
                        !.password = password,
                        !.returned =
                            IF authenticate_user(users, email, password) = {}
                            THEN "None" ELSE "User"]]
    /\ UNCHANGED << users, uuids >>
    /\ UsersUnchanged

NextUsers ==
    \/ \E s \in Sessions : create_user_check(s)
    \/ \E s \in Sessions : create_user_commit(s)
    \/ \E s \in Sessions : update_user_get(s)
    \/ \E s \in Sessions : update_user_commit(s)
    \/ \E s \in Sessions : delete_user_get(s)
    \/ \E s \in Sessions : delete_user_commit(s)
    \/ \E s \in Sessions : authenticate(s)

SpecUsers == InitUsers /\ [][NextUsers]_vars

\* Every await of find_parts resumes once the awaited call returns or fails,
\* and the controller runs to its return or raise: a step that can be taken
\* is eventually taken.
FairSpec == Spec /\ WF_vars(Next)


(***************************************************************************)
(* Properties                                                              *)
(***************************************************************************)
Range(seq) == { seq[i] : i \in 1..Len(seq) }

\* the listings that exist in a state: the collected ones and the one of
\* the running iteration
Tracked == Range(results) \cup Range(vendor_result)

OrganicCount(rs) == Cardinality({ i \in 1..Len(rs) : rs[i].origin = "organic" })

CallsOf(kinds) == { i \in 1..Len(calls) : calls[i].kind \in kinds }

Terminated == pc \in {"returned", "raised"}

\* C1: in every response, total_results is the length of results, which is
\* fast_path_count plus the number of results taken from the organic search,
\* and slow_path_count is at most that number.
C1_ResponseCounts ==
    response # None =>
        LET r == response[1] IN
        /\ r.total_results = Len(r.results)
        /\ Len(r.results) = r.fast_path_count + OrganicCount(r.results)
        /\ r.slow_path_count <= OrganicCount(r.results)

\* a response holding a structured listing and an organic one that was not
\* enriched
C1_Witness ==
    /\ response # None
    /\ response[1].fast_path_count = 1
    /\ response[1].slow_path_count = 0
    /\ OrganicCount(response[1].results) = 1

\* C2: in every response, results is ordered by confidence_score descending
\* and results of equal score stand in discovery order, the structured
\* listings before the organic ones.
C2_SortedStable ==
    response # None =>
        LET rs == response[1].results IN
        \A i, j \in 1..Len(rs) :
            i < j =>
                /\ rs[i].v.confidence_score >= rs[j].v.confidence_score
                /\ rs[i].v.confidence_score = rs[j].v.confidence_score =>
                     /\ rs[i].seq < rs[j].seq
                     /\ ~(rs[i].origin = "organic" /\ rs[j].origin = "shopping")

\* a response with a structured and an organic listing of equal score
C2_Witness ==
    /\ response # None
    /\ Len(response[1].results) = 2
    /\ response[1].results[1].v.confidence_score
         = response[1].results[2].v.confidence_score
    /\ response[1].results[1].origin = "shopping"
    /\ response[1].results[2].origin = "organic"

\* C3: the number of collected results never exceeds request.max_results at
\* any step, and total_results <= max_results in every response, also when
\* the organic search returns more listings than it was asked for.
C3_Budget ==
    /\ Len(results) <= request.max_results
    /\ response # None => response[1].total_results <= request.max_results

\* the organic search returned more listings than the remainder it was
\* asked for, and the response is full
C3_Witness ==
    /\ pc = "returned"
    /\ \E i \in CallsOf({"search"}) : organic_results > calls[i].num
    /\ response[1].total_results = request.max_results
    /\ OrganicCount(results) >= 1

\* C4: the confidence_score of every VendorResult lies in [0.0, 1.0] at
\* every point of find_parts, before and after an enrichment merge.
C4_ConfidenceRange ==
    /\ \A l \in Tracked :
         l.v.confidence_score >= 0 /\ l.v.confidence_score <= MaxConfidence
    /\ response # None =>
         \A l \in Range(response[1].results) :
            l.v.confidence_score >= 0 /\ l.v.confidence_score <= MaxConfidence

\* a listing with price, rating and reviews (score 1.0) next to a merged one
C4_Witness ==
    /\ \E l \in Range(results) : l.v.confidence_score = MaxConfidence
    /\ \E l \in Range(results) :
         l.v.source_type = PAGE_SCRAPE /\ l.attempt = "object"

\* C5: from one step of find_parts to the next, the confidence_score of a
\* listing never decreases and a slow-path source_type never becomes
\* fast-path again.
C5_Monotone ==
    [][\A l \in Tracked :
         \A m \in Tracked' :
            m.seq = l.seq =>
               /\ m.v.confidence_score >= l.v.confidence_score
               /\ l.v.source_type = PAGE_SCRAPE => m.v.source_type = PAGE_SCRAPE
      ]_vars

\* a merged listing of initial score 0.7 (rating and reviews) in a response
C5_Witness ==
    /\ response # None
    /\ \E l \in Range(response[1].results) :
         /\ l.v.source_type = PAGE_SCRAPE
         /\ l.v.confidence_score = 899

\* C6: with include_scraping False, slow_path_count is 0, no page fetch and
\* no extraction-model call is issued, and every result is fast-path.
C6_NoScraping ==
    ~request.include_scraping =>
        /\ slow_path_count = 0
        /\ CallsOf({"get", "generate_content"}) = {}
        /\ \A l \in Tracked : l.v.source_type = SERPER_SNIPPET
        /\ response # None =>
             /\ response[1].slow_path_count = 0
             /\ \A l \in Range(response[1].results) :
                  l.v.source_type = SERPER_SNIPPET

\* scraping is off, the extraction model is configured, and the response
\* holds an organic listing with a URL and no price
C6_Witness ==
    /\ ~request.include_scraping
    /\ gemini_client
    /\ response # None
    /\ \E l \in Range(response[1].results) :
         /\ l.origin = "organic"
         /\ l.v.price = PyNone
         /\ l.v.product_url # ""

\* the step ends an enrichment attempt whose page fetch failed or whose
\* model reply was no JSON
EnrichmentFailedStep ==
    \/ pc = "await_fetch" /\ calls'[Len(calls)].outcome = "fault"
    \/ pc = "await_model" /\ calls'[Len(calls)].outcome = "not_json"

\* C7: when the page fetch of an enrichment attempt fails, or the model's
\* reply is no JSON, the listing is appended with every field at its
\* pre-enrichment value (the one parsed from the raw listing),
\* slow_path_count is not incremented, and the loop goes on.
C7_FailedEnrichmentKeepsFields ==
    [][EnrichmentFailedStep =>
         /\ Len(results') = Len(results) + 1
         /\ results'[Len(results')].v = vendor_result[1].v
         /\ results'[Len(results')].v
              = parse_serper_result(raw_result[1], SERPER_SNIPPET)
         /\ \A i \in 1..Len(results) : results'[i] = results[i]
         /\ slow_path_count' = slow_path_count
         /\ pc' = "organic_loop"
      ]_vars

\* a response holding a listing whose fetch failed and one whose model reply
\* was no JSON
C7_Witness ==
    /\ response # None
    /\ \E l \in Range(response[1].results) : l.attempt = "fetch_fault"
    /\ \E l \in Range(response[1].results) : l.attempt = "not_json"

\* the listings on which an enrichment attempt went as far as the page fetch
Attempted(rs) ==
    { i \in 1..Len(rs) : rs[i].attempt \notin {"none", "no_client"} }

\* C8: whatever the outcome of an enrichment attempt, find_parts returns a
\* response and the listing is in its results: when find_parts has ended
\* without a fault of the searches or of the parsing of a listing, there is
\* a response and it holds one listing per page fetch.
C8_EnrichmentNeverRemoves ==
    (/\ Terminated
     /\ CallsOf({"get"}) # {}
     /\ raised_at \in {"none", "await_fetch", "await_model"})
    => /\ response # None
       /\ Cardinality(Attempted(response[1].results))
            = Cardinality(CallsOf({"get"}))

\* the structured phase has ended without a fault
StructuredDone ==
    /\ pc \notin {"start", "await_shopping", "shopping_loop"}
    /\ raised_at \notin {"start", "await_shopping", "shopping_loop"}

\* C9: once the structured search has yielded at least one listing, the
\* caller receives a non-empty response holding those listings, whatever
\* happens in the organic search and the enrichment.
C9_PartialResults ==
    (Terminated /\ StructuredDone /\ fast_path_count >= 1)
    => /\ response # None
       /\ Cardinality({ l \in Range(response[1].results) :
                          l.origin = "shopping" }) = fast_path_count

\* C10: a transport fault of the structured or of the organic search leaves
\* find_parts as an exception: no response is returned and no further call
\* is issued.
C10_TransportFaultAborts ==
    \A i \in CallsOf({"shopping", "search"}) :
        calls[i].outcome = "fault" =>
            /\ i = Len(calls)
            /\ pc = "raised"
            /\ exc \in {"HTTPStatusError", "ConnectError"}
            /\ response = None

\* the organic search failed after a structured listing was collected
C10_Witness ==
    /\ pc = "raised"
    /\ raised_at = "await_organic"
    /\ fast_path_count >= 1
    /\ calls[Len(calls)].outcome = "fault"

\* C11: without the search credential, every request ends in a ValueError
\* that the controller surfaces as 503; no response is returned and no
\* outbound call (search, page fetch, model) is issued, the first time or
\* again.
C11_MissingSearchKey ==
    ~SERPER_API_KEY =>
        /\ calls = << >>
        /\ response = None
        /\ pc \in {"start", "raised"}
        /\ pc = "raised" => exc = "ValueError"
        /\ http_status \in {0, 503}
        /\ http_status = 503 => pc = "raised"

\* the controller has answered a request made without the search credential
C11_Witness ==
    /\ ~SERPER_API_KEY
    /\ pc = "raised"
    /\ http_status = 503

\* the fields a VendorResult holds when nothing was merged into it
FastPathData(v) ==
    /\ v.source_type = SERPER_SNIPPET
    /\ v.availability = AvailabilityUNKNOWN
    /\ v.vendor_name = "Raw Vendor"
    /\ v.product_title = "Raw Title"
    /\ v.description = "Raw snippet"
    /\ v.price \in {PyNone, "1250.0"}

\* C12 as stated: without the extraction-model credential and with the
\* search credential, find_parts returns a response for every request.
C12_AlwaysResponds ==
    (~gemini_client /\ SERPER_API_KEY /\ Terminated) => response # None

\* C12: without the extraction-model credential and with the search
\* credential, only the slow path is disabled: no page fetch and no model
\* call is issued, slow_path_count stays 0, every listing keeps its
\* fast-path data, and find_parts returns a response unless a search call
\* fails or a listing fails validation.
C12_SlowPathDisabled ==
    (~gemini_client /\ SERPER_API_KEY) =>
        /\ CallsOf({"get", "generate_content"}) = {}
        /\ slow_path_count = 0
        /\ \A l \in Tracked :
             FastPathData(l.v) /\ l.attempt \in {"none", "no_client"}
        /\ pc = "raised" =>
             exc \in {"HTTPStatusError", "ConnectError", "ValidationError"}
        /\ response # None =>
             /\ response[1].slow_path_count = 0
             /\ \A l \in Range(response[1].results) : FastPathData(l.v)

\* scraping is asked for, there is no extraction model, and the response
\* holds an organic listing on which the slow path was skipped
C12_Witness ==
    /\ ~gemini_client
    /\ SERPER_API_KEY
    /\ request.include_scraping
    /\ response # None
    /\ \E l \in Range(response[1].results) : l.attempt = "no_client"

\* C14: in every response, every result has a non-empty product_url and no
\* two results have the same product_url.
C14_UrlsNonEmptyUnique ==
    response # None =>
        LET rs == response[1].results IN
        /\ \A i \in 1..Len(rs) : rs[i].v.product_url # ""
        /\ \A i, j \in 1..Len(rs) :
             i # j => rs[i].v.product_url # rs[j].v.product_url

\* C16: in every response, fast_path_count is the number of results whose
\* source_type is serper_snippet, and fast_path_count + slow_path_count is
\* total_results.
C16_FastPathCountsSnippets ==
    response # None =>
        LET r == response[1] IN
        /\ r.fast_path_count =
             Cardinality({i \in 1..Len(r.results) :
                            r.results[i].v.source_type = SERPER_SNIPPET})
        /\ r.fast_path_count + r.slow_path_count = r.total_results

\* C18: the organic search is issued if and only if the structured search
\* collected fewer than max_results listings; it is issued at most once, as
\* the second outbound call, after the structured search has returned, and
\* asks for max_results minus the number of listings collected by then.
C18_OrganicSearchWhenUnderFilled ==
    /\ Cardinality(CallsOf({"search"})) <= 1
    /\ \A i \in CallsOf({"search"}) :
         /\ i = 2
         /\ calls[1].kind = "shopping"
         /\ calls[1].outcome = "ok"
         /\ fast_path_count < request.max_results
         /\ calls[i].num = request.max_results - fast_path_count
    /\ StructuredDone =>
         (CallsOf({"search"}) # {} <=> fast_path_count < request.max_results)

C18_Witness ==
    /\ request.max_results = 2
    /\ fast_path_count = 1
    /\ Len(calls) >= 2
    /\ calls[2].kind = "search"
    /\ calls[2].num = 1
    /\ calls[2].outcome = "ok"
    /\ response # None

\* C19: every listing taken from the structured search becomes a fast-path
\* result: once its loop has ended, fast_path_count is the smaller of the
\* number of shopping listings returned and max_results; each of those
\* listings has source_type serper_snippet, with or without a price, and no
\* enrichment is ever attempted on it; a response holds all of them.
C19_StructuredIsFastPath ==
    /\ \A l \in Tracked :
         l.origin = "shopping" =>
             l.v.source_type = SERPER_SNIPPET /\ l.attempt = "none"
    /\ StructuredDone =>
         fast_path_count = IF shopping_results <= request.max_results
                           THEN shopping_results ELSE request.max_results
    /\ response # None =>
         LET r == response[1] IN
         /\ r.fast_path_count = IF shopping_results <= request.max_results
                                THEN shopping_results ELSE request.max_results
         /\ r.fast_path_count =
              Cardinality({i \in 1..Len(r.results) :
                             r.results[i].origin = "shopping"})
         /\ \A i \in 1..Len(r.results) :
              r.results[i].origin = "shopping" =>
                  /\ r.results[i].v.source_type = SERPER_SNIPPET
                  /\ r.results[i].attempt = "none"

C19_Witness ==
    /\ request.include_scraping
    /\ gemini_client
    /\ shopping_results > request.max_results
    /\ response # None
    /\ \E l \in Range(response[1].results) :
         /\ l.origin = "shopping"
         /\ l.v.price = PyNone
         /\ l.v.product_url # ""

\* the trigger condition of the slow path, on a listing's fields
NeedsEnrichment(v) ==
    /\ v.price = PyNone
    /\ request.include_scraping
    /\ v.product_url # ""

\* C20 as stated: an enrichment attempt (page fetch plus extraction) is made
\* for a listing if and only if it has no price, include_scraping is true
\* and its URL is non-empty: a listing being enriched satisfies the
\* condition, and a collected listing on which no attempt was made (its
\* fields are then the parsed ones) does not.
C20_AttemptIffCondition ==
    /\ pc \in {"await_fetch", "await_model"} =>
           NeedsEnrichment(vendor_result[1].v)
    /\ \A i \in 1..Len(results) :
         IF i \in Attempted(results)
         THEN request.include_scraping /\ results[i].v.product_url # ""
         ELSE ~NeedsEnrichment(results[i].v)

\* C20, amended: a page fetch is issued in a step if and only if the step
\* decides about a listing of the organic search that has no price and a
\* non-empty URL while include_scraping is true and the extraction-model
\* client is configured; structured listings are never enriched.
C20_AttemptIffOrganicCondition ==
    [][(/\ Len(calls') = Len(calls) + 1
        /\ calls'[Len(calls')].kind = "get")
       <=>
       (/\ pc = "parsed"
        /\ vendor_result[1].origin = "organic"
        /\ NeedsEnrichment(vendor_result[1].v)
        /\ gemini_client)]_vars

C20_Witness ==
    /\ response # None
    /\ \E l \in Range(response[1].results) :
         l.origin = "organic" /\ l.attempt = "object"
    /\ \E l \in Range(response[1].results) :
         /\ l.origin = "shopping"
         /\ l.attempt = "none"
         /\ NeedsEnrichment(l.v)

\* C17: one request yields exactly one outcome. Provided every outbound call
\* eventually returns or fails, search_parts_controller eventually ends; it
\* ends with the PartSearchResponse (200) and no exception, or with a single
\* error (503 or 500) and no response, and once it has ended nothing more
\* happens.
C17_ExactlyOneOutcome ==
    /\ <>(http_status # 0)
    /\ [](http_status \in {0, 200, 500, 503})
    /\ [](http_status = 200 =>
            response # None /\ pc = "returned" /\ exc = "none")
    /\ [](http_status \in {500, 503} =>
            response = None /\ pc = "raised" /\ exc # "none")
    /\ [][http_status = 0]_vars

C17_WitnessResponse ==
    /\ http_status = 200
    /\ response # None
    /\ \E i \in 1..Len(calls) : calls[i].kind = "generate_content"

\* C15: every response produced through quick_search_controller uses only
\* the fast path: no page fetch or extraction-model call is issued while
\* serving it, slow_path_count is 0, no listing is enriched, and it holds at
\* most 5 results.
C15_QuickFastPathOnly ==
    /\ CallsOf({"get", "generate_content"}) = {}
    /\ pc \notin {"await_fetch", "await_model"}
    /\ slow_path_count = 0
    /\ \A l \in Tracked : l.attempt = "none"
    /\ response # None =>
         LET r == response[1] IN
         /\ r.slow_path_count = 0
         /\ r.total_results <= 5
         /\ Len(r.results) <= 5
         /\ \A i \in 1..Len(r.results) :
              /\ r.results[i].attempt = "none"
              /\ r.results[i].v.source_type = SERPER_SNIPPET

C15_Witness ==
    /\ gemini_client
    /\ http_status = 200
    /\ response # None
    /\ response[1].total_results = 5
    /\ idx < organic_results
    /\ \E l \in Range(response[1].results) :
         /\ l.origin = "organic"
         /\ l.v.price = PyNone
         /\ l.v.product_url # ""

\* a field the extracted object holds with a non-null value
NonNull(d, k) == d[k] \notin {JAbsent, JNull}

\* the merge as C21 states it: a field is overwritten exactly when the
\* extracted object holds it with a non-null value
StatedMerge(v, d) ==
    [vendor_name      |-> IF NonNull(d, "vendor_name")
                          THEN d.vendor_name ELSE v.vendor_name,
     product_title    |-> IF NonNull(d, "product_title")
                          THEN d.product_title ELSE v.product_title,
     price            |-> IF NonNull(d, "price")
                          THEN ToFloat(d.price) ELSE v.price,
     currency         |-> IF NonNull(d, "currency")
                          THEN d.currency ELSE v.currency,
     availability     |-> IF NonNull(d, "availability")
                          THEN d.availability ELSE v.availability,
     product_url      |-> v.product_url,
     source_type      |-> PAGE_SCRAPE,
     confidence_score |-> FloatMin(FloatAdd(v.confidence_score,
                                            ScrapeConfidence), MaxConfidence),
     description      |-> IF NonNull(d, "description")
                          THEN d.description ELSE v.description]

\* the extraction model has answered with a JSON object
ExtractionSucceededStep ==
    pc = "await_model" /\ calls'[Len(calls)].outcome = "object"

\* C21: on a successful extraction (the object holds at least one key) the
\* listing is collected with each of
\* price, currency, availability, vendor_name, product_title and description
\* overwritten exactly when the extracted object holds it with a non-null
\* value, source_type set to page_scrape and confidence_score raised by 0.2,
\* capped at 1.0.
C21_MergeOverwritesNonNull ==
    [][ExtractionSucceededStep =>
         /\ Len(results') = Len(results) + 1
         /\ results'[Len(results')].scraped # None
         /\ results'[Len(results')].scraped[1] # EmptyDict =>
              results'[Len(results')].v
                = StatedMerge(vendor_result[1].v,
                              results'[Len(results')].scraped[1])
      ]_vars

\* the listings of rs whose source_type is page_scrape
Merged(rs) == { i \in 1..Len(rs) : rs[i].v.source_type = PAGE_SCRAPE }

\* the organic listings of rs whose enrichment returned extracted data, that
\* is an object holding at least one key
Extracted(rs) ==
    { i \in 1..Len(rs) :
        /\ rs[i].origin = "organic"
        /\ rs[i].scraped # None
        /\ rs[i].scraped[1] # EmptyDict }

C23_Only503ForMissingKey ==
    http_status # 0 =>
        /\ http_status = 503 <=> ~SERPER_API_KEY
        /\ (pc = "raised" /\ SERPER_API_KEY) => http_status = 500

\* the outbound calls in flight
InFlight == { i \in 1..Len(calls) : calls[i].outcome = "pending" }

\* C24: the phases of one find_parts call are strictly sequential. At most
\* one outbound call is in flight, and it is the last one issued; the
\* shopping search is the first call and has returned before the organic
\* search is issued; page fetches and model calls come after the organic
\* search, one listing at a time in the order the organic search returned
\* them (each listing is collected at its discovery index before the next is
\* examined); the sort runs only when no call is in flight and no listing is
\* being examined.
C24_SequentialPhases ==
    /\ Cardinality(InFlight) <= 1
    /\ InFlight \subseteq {Len(calls)}
    /\ InFlight # {} <=>
         pc \in {"await_shopping", "await_organic", "await_fetch",
                 "await_model"}
    /\ \A i \in 1..Len(calls) :
         /\ calls[i].kind = "shopping" <=> i = 1
         /\ calls[i].kind = "search" => i = 2
         /\ calls[i].kind = "get" =>
              i > 2 /\ calls[i - 1].kind \in {"search", "get", "generate_content"}
         /\ calls[i].kind = "generate_content" =>
              calls[i - 1].kind = "get" /\ calls[i - 1].outcome = "ok"
    /\ pc \in {"await_fetch", "await_model"} =>
         /\ vendor_result # None
         /\ vendor_result[1].seq = Len(results) + 1
         /\ Cardinality(CallsOf({"get"})) = Cardinality(Attempted(results)) + 1
    /\ pc \notin {"await_fetch", "await_model", "raised"} =>
         Cardinality(CallsOf({"get"})) = Cardinality(Attempted(results))
    /\ pc \notin {"sort", "returned", "raised"} =>
         \A i \in 1..Len(results) : results[i].seq = i
    /\ pc \in {"sort", "returned"} =>
         /\ InFlight = {}
         /\ vendor_result = None
    /\ response # None => response[1].results = results

C24_Witness ==
    /\ response # None
    /\ Cardinality(CallsOf({"get"})) = 2
    /\ Cardinality(CallsOf({"generate_content"})) = 2
    /\ response[1].results[1].seq = 2

\* C26: _scrape_and_parse never propagates a failure to find_parts. For a
\* fault of the fetch or of the model call, a reply that is no JSON and a
\* reply that is JSON but no object it returns None; whenever it returns a
\* value other than None the model had answered with a JSON object and the
\* value is that object. No exception leaves find_parts while the page is
\* awaited, and after the model's reply only the merge of a returned object
\* can raise.
C26_ScrapeNeverPropagates ==
    /\ \A l \in Range(results) :
         /\ l.attempt \in {"no_client", "fetch_fault", "call_error",
                           "not_json", "json_non_object"} => l.scraped = None
         /\ l.scraped # None =>
              /\ l.attempt = "object"
              /\ l.scraped[1] \in ExtractedObjects
         /\ l.attempt = "object" => l.scraped # None
    /\ raised_at # "await_fetch"
    /\ raised_at = "await_model" =>
         /\ calls[Len(calls)].kind = "generate_content"
         /\ calls[Len(calls)].outcome = "object"
         /\ exc \in {"ValueError", "TypeError"}

C26_Witness ==
    /\ response # None
    /\ \E l \in Range(response[1].results) :
         l.attempt = "json_non_object" /\ l.scraped = None
    /\ \E l \in Range(response[1].results) :
         l.attempt = "object" /\ l.scraped # None

\* 0.5, plus 0.3 when hasPrice, plus 0.1 when hasRating, plus 0.1 when
\* hasReviews, capped at 1.0
ConfidenceOf(hasPrice, hasRating, hasReviews) ==
    LET a == IF hasPrice THEN FloatAdd(500, 300) ELSE 500
        b == IF hasRating THEN FloatAdd(a, 100) ELSE a
        c == IF hasReviews THEN FloatAdd(b, 100) ELSE b
    IN  FloatMin(c, 1000)

\* C27 as stated: the initial confidence of a parsed listing is 0.5, plus
\* 0.3 if and only if a numeric price was extracted, plus 0.1 if a rating
\* field is present, plus 0.1 if a review-count field is present, capped at
\* 1.0.
C27_ConfidenceFromPresence ==
    pc = "parsed" =>
        vendor_result[1].v.confidence_score
          = ConfidenceOf(vendor_result[1].v.price # PyNone,
                         raw_result[1].rating # JAbsent,
                         raw_result[1].reviews # JAbsent)

\* C27, amended: the initial confidence of a parsed listing is 0.5, plus 0.3
\* if and only if a numeric price was extracted from its price field, plus
\* 0.1 if and only if its rating field is present with a truthy value (not
\* 0), plus 0.1 if and only if its review-count field is present with a
\* truthy value, capped at 1.0; it depends on nothing else in the listing.
C27_ConfidenceFromTruthy ==
    /\ pc = "parsed" =>
         vendor_result[1].v.confidence_score
           = ConfidenceOf(raw_result[1].price = RawPriceText,
                          raw_result[1].rating = JPositive,
                          raw_result[1].reviews = JPositive)
    /\ \A l \in Tracked :
         l.scraped = None =>
             l.v.confidence_score \in
                 IF l.v.price # PyNone THEN {800, 900, 1000}
                 ELSE {500, 600, 700}

C27_Witness ==
    /\ pc = "parsed"
    /\ raw_result[1].price = RawPriceText
    /\ raw_result[1].rating = JZero
    /\ raw_result[1].reviews = JPositive
    /\ raw_result[1].link = JAbsent
    /\ vendor_result[1].v.confidence_score = 900

\* a part number or manufacturer that is given: a non-empty string
Given(s) == s # PyNone /\ s # ""

\* C28: the search query is "buy", part_name, part_number (only if given),
\* manufacturer (only if given) and location, in that order, joined by
\* single spaces; the same string is sent to the shopping and to the organic
\* search and is the search_query of the response.
C28_QueryJoinedInOrder ==
    LET stated ==
          "buy " \o request.part_name
          \o (IF Given(request.part_number)
              THEN " " \o request.part_number ELSE "")
          \o (IF Given(request.manufacturer)
              THEN " " \o request.manufacturer ELSE "")
          \o " " \o request.location
    IN  /\ \A i \in CallsOf({"shopping", "search"}) : calls[i].q = stated
        /\ response # None => response[1].search_query = stated

C28_Witness ==
    /\ request.part_number = "6205"
    /\ request.manufacturer = "SKF"
    /\ Cardinality(CallsOf({"shopping", "search"})) = 2
    /\ response # None
    /\ response[1].search_query = "buy bearing 6205 SKF Sri Lanka"

\* the listings of a sequence that satisfy a test, counted
CountOrigin(rs, origin) ==
    Cardinality({ i \in 1..Len(rs) : rs[i].origin = origin })

\* C25: concurrent find_parts calls on the shared service instance do not
\* interfere, however they interleave. A call's results list holds only
\* listings its own searches returned, in the order it collected them; its
\* response is the one it builds alone from the replies it received: those
\* listings sorted, its own counters, its own query. No result or counter of
\* one call is visible in the other.
C25_NoInterference ==
    \A p \in Procs :
        LET inv == invocations[p] IN
        /\ \A i \in 1..Len(frames[p].results) :
             frames[p].results[i].owner = p
        /\ inv.pc \notin {"start", "returned"} =>
             /\ frames[p].results = inv.own
             /\ frames[p].fast_path_count = CountOrigin(inv.own, "shopping")
             /\ frames[p].slow_path_count = Cardinality(Merged(inv.own))
        /\ \A i \in 1..Len(inv.own) : inv.own[i].seq = i
        /\ inv.response # None =>
             LET r == inv.response[1] IN
             /\ r.results = SortResults(inv.own)
             /\ r.total_results = Len(inv.own)
             /\ r.fast_path_count = CountOrigin(inv.own, "shopping")
             /\ r.slow_path_count = Cardinality(Merged(inv.own))
             /\ r.search_query = search_query(inv.request)

\* one call has returned two listings while the other, entered before that,
\* is suspended in an enrichment with one listing collected
C25_Witness ==
    /\ invocations["a"].response # None
    /\ invocations["a"].response[1].total_results = 2
    /\ invocations["a"].response[1].slow_path_count = 1
    /\ invocations["b"].pc = "await_scrape"
    /\ Len(frames["b"].results) = 1

\* no two stored users share an email or an id
EmailsUnique ==
    \A u1, u2 \in users :
        (u1.email = u2.email \/ u1.id = u2.id) => u1 = u2

\* session s enters create_user with an email that is stored
CreateWithStoredEmail(s) ==
    /\ sessions[s].pc = "idle"
    /\ sessions'[s] # sessions[s]
    /\ sessions'[s].op = "create_user"
    /\ get_user_by_email(users, sessions'[s].email) # {}

\* C29: user emails stay unique. After any sequence of create_user,
\* update_user and delete_user, interleaved in any way, no two stored users
\* have the same email; create_user called with an email that is stored
\* raises ValueError and adds no user.
C29_EmailsStayUnique ==
    /\ []EmailsUnique
    /\ [][\A s \in Sessions :
            CreateWithStoredEmail(s) =>
                /\ sessions'[s].returned = "ValueError"
                /\ sessions'[s].pc = "idle"
                /\ users' = users]_vars

\* two racing create_user calls with one email: the second commit is
\* refused by the unique index; a later call with it raised ValueError
C29_Witness ==
    /\ sessions["s1"].op = "create_user"
    /\ sessions["s1"].returned = "IntegrityError"
    /\ sessions["s2"].op = "create_user"
    /\ sessions["s2"].returned = "ValueError"
    /\ sessions["s2"].email = sessions["s1"].email
    /\ Cardinality(users) = 1

\* session s completes a delete_user(hard_delete=False) with True
SoftDeleteStep(s) ==
    /\ sessions[s].pc = "delete_commit"
    /\ ~sessions[s].hard_delete
    /\ sessions'[s].pc = "idle"
    /\ sessions'[s].returned = "True"

\* session s completes a delete_user(hard_delete=True)
HardDeleteStep(s) ==
    /\ sessions[s].pc = "delete_commit"
    /\ sessions[s].hard_delete
    /\ sessions'[s].pc = "idle"

\* C30: after delete_user(hard_delete=False) on an existing user the user
\* is still stored with is_active False (a user found inactive is left as it
\* is); authenticate_user returns None for an inactive user's email with
\* every password, the correct one included; a stored user stops being
\* stored only by a hard delete, and an inactive user becomes active only by
\* an update_user that sets is_active to True; after
\* delete_user(hard_delete=True) the user is no longer stored, and its id is
\* never given to another user.
C30_SoftDeleteDeactivates ==
    /\ [](\A u \in users :
            /\ u.id <= uuids
            /\ ~u.is_active =>
                 \A password \in Passwords :
                     authenticate_user(users, u.email, password) = {})
    /\ [][\A s \in Sessions :
            /\ (SoftDeleteStep(s) /\ sessions[s].user[1].is_active) =>
                 \E u \in users' :
                     u.id = sessions[s].user_id /\ ~u.is_active
            /\ (SoftDeleteStep(s) /\ ~sessions[s].user[1].is_active) =>
                 users' = users
            /\ HardDeleteStep(s) =>
                 get_user(users', sessions[s].user_id) = {}]_vars
    /\ [][\A u \in users :
            /\ get_user(users', u.id) = {} =>
                 \E s \in Sessions :
                     /\ sessions[s].pc = "delete_commit"
                     /\ sessions[s].hard_delete
                     /\ sessions[s].user_id = u.id
            /\ (~u.is_active /\ \E v \in users' : v.id = u.id /\ v.is_active)
                 => \E s \in Sessions :
                      /\ sessions[s].pc = "update_commit"
                      /\ sessions[s].user_id = u.id
                      /\ sessions[s].user_update.is_active = << TRUE >>]_vars

\* a soft delete has returned True, the user is stored and inactive, and a
\* login with its email and the correct password has returned None
C30_Witness ==
    /\ sessions["s1"].op = "delete_user"
    /\ ~sessions["s1"].hard_delete
    /\ sessions["s1"].returned = "True"
    /\ \E u \in users :
         /\ u.id = sessions["s1"].user_id
         /\ ~u.is_active
         /\ sessions["s2"].op = "authenticate_user"
         /\ sessions["s2"].email = u.email
         /\ verify_password(sessions["s2"].password, u.hashed_password)
         /\ sessions["s2"].returned = "None"

====
